---- MODULE Spec2Model ----
(***************************************************************************)
(* floorplan-3d-mesh: extrusion of 2D floor outlines into prism meshes     *)
(* (src/main.rs).  Two specifications share the definitions below:         *)
(*   Spec        applies the two meshers, the Rc<Mesh> conversion and      *)
(*               save_mesh_object to one input polygon;                    *)
(*   SpecDriver  runs main(): read, filter, process_shapes,                *)
(*               generate_meshes, with the panics of unwrap/expect.        *)
(* f32 coordinates are modelled by small integers (all values used are     *)
(* exactly representable and far from the rounding range of f32).          *)
(***************************************************************************)
EXTENDS Integers, Sequences, FiniteSets, TLC

\* Longest input polygon handed to the meshers under Spec.
MaxN == 5
\* Longest polygon of an input item under SpecDriver.
MaxPts == 3
\* Longest list of input items under SpecDriver.
MaxItems == 3

FLOOR_Z_INDEX == 0
ROOF_Z_INDEX == 10

VARIABLES
    value,      \* Spec: the Vec<Point> handed to the meshers
    mesh2d,     \* Spec: result of Floorplan2DMesh::from(value)
    mesh3d,     \* Spec: result of Floorplan3DMesh::from(value)
    rcmesh,     \* Spec: result of Rc<Mesh>::from(mesh3d)
    obj,        \* Spec: what save_mesh_object(rcmesh, ..) hands to write_meshes
    done,       \* Spec: which of the four conversions have run
    input,      \* SpecDriver: the parsed content of input.json
    items,      \* SpecDriver: floorplan.items not yet consumed by filter_map
    polygons,   \* SpecDriver: polygons collected and not yet consumed by process_shapes
    shapes,     \* SpecDriver: meshes collected and not yet consumed by generate_meshes
    index,      \* SpecDriver: the enumerate() counter of generate_meshes
    calls,      \* SpecDriver: file names of the save_mesh_object calls made so far
    files,      \* SpecDriver: the artifacts created so far, in creation order
    failedAt,   \* SpecDriver: <<k>> once save_mesh_object panicked at index k, else <<>>
    pc          \* SpecDriver: position of main()

vars == <<value, mesh2d, mesh3d, rcmesh, obj, done,
          input, items, polygons, shapes, index, calls, files, failedAt, pc>>

meshVars == <<value, mesh2d, mesh3d, rcmesh, obj, done>>
driverVars == <<input, items, polygons, shapes, index, calls, files, failedAt, pc>>

----------------------------------------------------------------------------
(* Value types *)

Point_new(x, y) == [x |-> x, y |-> y]

PointZ_new(x, y, z) == [x |-> x, y |-> y, z |-> z]

PointZ_floor(x, y) == PointZ_new(x, y, FLOOR_Z_INDEX)

PointZ_roof_floorz(x, y) == PointZ_new(x, y, FLOOR_Z_INDEX)

PointZ_roof(x, y) == PointZ_new(x, y, ROOF_Z_INDEX)

\* (a..=b).collect(): the indices a, a+1, .., b pushed in turn.
RECURSIVE CollectRange(_, _)
CollectRange(a, b) == IF a > b THEN <<>> ELSE <<a>> \o CollectRange(a + 1, b)

----------------------------------------------------------------------------
(* Floorplan2DMesh::from *)

Floorplan2DMeshFrom_zero(v) ==
    [vertices |-> v, faces |-> <<CollectRange(0, Len(v) - 1)>>]

Floorplan2DMeshFrom(v) ==
    LET faces == CollectRange(1, Len(v))
    IN  [vertices |-> v, faces |-> <<faces>>]

----------------------------------------------------------------------------
(* Floorplan3DMesh::from *)

\* for point in &value { vertices.push(PointZ::roof(point.x, point.y)) }
RECURSIVE PushRoof(_, _, _)
PushRoof(v, i, vertices) ==
    IF i > Len(v) THEN vertices
    ELSE PushRoof(v, i + 1, Append(vertices, PointZ_roof(v[i].x, v[i].y)))

\* for point in value { vertices.push(PointZ::floor(point.x, point.y)) }
RECURSIVE PushFloor(_, _, _)
PushFloor(v, i, vertices) ==
    IF i > Len(v) THEN vertices
    ELSE PushFloor(v, i + 1, Append(vertices, PointZ_floor(v[i].x, v[i].y)))

Start_nowrap(i, shape_2d_points) == i + 1

\* let start = match index == shape_2d_points { true => 1, false => index + 1 }
Start(i, shape_2d_points) == IF i = shape_2d_points THEN 1 ELSE i + 1

SideFace_p4off(i, shape_2d_points) ==
    LET p1 == i
        p2 == Start(i, shape_2d_points)
        p3 == p2 + shape_2d_points
        p4 == p1 + shape_2d_points + 1
    IN  <<p1, p2, p3, p4>>

SideFace_crossed(i, shape_2d_points) ==
    LET p1 == i
        p2 == Start(i, shape_2d_points)
        p3 == p2 + shape_2d_points
        p4 == p1 + shape_2d_points
    IN  <<p1, p2, p4, p3>>

\* The body of the side-face loop: vec![p1, p2, p3, p4].
SideFace(i, shape_2d_points) ==
    LET p1 == i
        p2 == Start(i, shape_2d_points)
        p3 == p2 + shape_2d_points
        p4 == p1 + shape_2d_points
    IN  <<p1, p2, p3, p4>>

\* for index in 1..=shape_2d_points { ...; faces.push(vec![p1, p2, p3, p4]) }
RECURSIVE PushSides(_, _, _)
PushSides(i, shape_2d_points, faces) ==
    IF i > shape_2d_points THEN faces
    ELSE PushSides(i + 1, shape_2d_points, Append(faces, SideFace(i, shape_2d_points)))

Floorplan3DMeshFrom_nobottom(v) ==
    LET shape_2d_points == Len(v)
        vertices == PushFloor(v, 1, PushRoof(v, 1, <<>>))
        faces1 == Append(<<>>, CollectRange(1, shape_2d_points))
    IN  [vertices |-> vertices, faces |-> PushSides(1, shape_2d_points, faces1)]

Floorplan3DMeshFrom(v) ==
    LET shape_2d_points == Len(v)
        vertices == PushFloor(v, 1, PushRoof(v, 1, <<>>))
        faces1 == Append(<<>>, CollectRange(1, shape_2d_points))
        faces2 == PushSides(1, shape_2d_points, faces1)
        faces3 == Append(faces2, CollectRange(shape_2d_points + 1, 2 * shape_2d_points))
    IN  [vertices |-> vertices, faces |-> faces3]

----------------------------------------------------------------------------
(* Rc<Mesh>::from(Floorplan3DMesh) and save_mesh_object *)

\* immense::vertex(x, y, z)
vertex(x, y, z) == <<x, y, z>>

\* Mesh::from(vertices.collect(), None, value.faces)
RcMeshFrom(m) ==
    [vertices |-> [i \in 1..Len(m.vertices) |->
                      vertex(m.vertices[i].x, m.vertices[i].y, m.vertices[i].z)],
     normals  |-> "None",
     faces    |-> m.faces]

\* Tf::tx(x): the transform that translates by x along the x axis.
Tf_tx(x) == <<x, 0, 0>>

\* The transform applied to one vertex when the rule is generated.
ApplyTf(tf, v) == <<v[1] + tf[1], v[2] + tf[2], v[3] + tf[3]>>

SaveMeshObject_ty(mesh, filename) ==
    [name          |-> filename,
     vertices      |-> [i \in 1..Len(mesh.vertices) |->
                           <<mesh.vertices[i][1], mesh.vertices[i][2] + 1, mesh.vertices[i][3]>>],
     faces         |-> mesh.faces,
     grouping      |-> "ByColor",
     export_colors |-> "None",
     color         |-> "None"]

\* save_mesh_object when File::create and write_meshes succeed: the rule
\* Rule::new().push(Tf::tx(1.0), mesh) is generated and its one mesh written.
SaveMeshObject(mesh, filename) ==
    LET tf == Tf_tx(1)
    IN  [name          |-> filename,
         vertices      |-> [i \in 1..Len(mesh.vertices) |-> ApplyTf(tf, mesh.vertices[i])],
         faces         |-> mesh.faces,
         grouping      |-> "ByColor",
         export_colors |-> "None",
         color         |-> "None"]

\* format!("data/{filename}_{index}.obj")
Filename(filename, i) == <<"data/", filename, "_", i, ".obj">>

----------------------------------------------------------------------------
(* Inputs *)

\* Points the polygons of Spec are drawn from (three of the test's hexagon).
TestPoints == {Point_new(0, 0), Point_new(0, 5), Point_new(5, 4)}

RECURSIVE SeqsUpTo(_, _)
SeqsUpTo(S, n) ==
    IF n = 0 THEN {<<>>}
    ELSE LET shorter == SeqsUpTo(S, n - 1)
         IN  shorter \cup {Append(s, e) : s \in {t \in shorter : Len(t) = n - 1}, e \in S}

NoMesh == [vertices |-> <<>>, faces |-> <<>>]

NoDriver ==
    /\ input = <<>> /\ items = <<>> /\ polygons = <<>> /\ shapes = <<>>
    /\ index = 0 /\ calls = <<>> /\ files = <<>> /\ failedAt = <<>>
    /\ pc = "idle"

Init ==
    /\ value \in SeqsUpTo(TestPoints, MaxN)
    /\ mesh2d = NoMesh /\ mesh3d = NoMesh /\ rcmesh = NoMesh /\ obj = NoMesh
    /\ done = {}
    /\ NoDriver

----------------------------------------------------------------------------
(* Spec: the conversions applied to one polygon *)

PlanarMesher ==
    /\ "2d" \notin done
    /\ mesh2d' = Floorplan2DMeshFrom(value)
    /\ done' = done \cup {"2d"}
    /\ UNCHANGED <<value, mesh3d, rcmesh, obj>>
    /\ UNCHANGED driverVars

PrismExtruder ==
    /\ "3d" \notin done
    /\ mesh3d' = Floorplan3DMeshFrom(value)
    /\ done' = done \cup {"3d"}
    /\ UNCHANGED <<value, mesh2d, rcmesh, obj>>
    /\ UNCHANGED driverVars

IntoRcMesh ==
    /\ "3d" \in done /\ "rc" \notin done
    /\ rcmesh' = RcMeshFrom(mesh3d)
    /\ done' = done \cup {"rc"}
    /\ UNCHANGED <<value, mesh2d, mesh3d, obj>>
    /\ UNCHANGED driverVars

ExportMesh ==
    /\ "rc" \in done /\ "obj" \notin done
    /\ obj' = SaveMeshObject(rcmesh, Filename("wall", 0))
    /\ done' = done \cup {"obj"}
    /\ UNCHANGED <<value, mesh2d, mesh3d, rcmesh>>
    /\ UNCHANGED driverVars

Next == PlanarMesher \/ PrismExtruder \/ IntoRcMesh \/ ExportMesh

Spec == Init /\ [][Next]_vars

----------------------------------------------------------------------------
(* SpecDriver: main() *)

Rectanglelabels == [type |-> "rectanglelabels"]

Polygon(points) == [type |-> "polygonlabels", points |-> points]

\* The hexagon of the repository's tests, as [f32; 2] arrays.
Hexagon == <<(<<0, 0>>), <<0, 5>>, <<5, 5>>, <<5, 4>>, <<1, 4>>, <<1, 0>>>>

\* The n points of the hexagon outline that follow its first `from` points.
Outline(from, n) == [i \in 1..n |-> Hexagon[((from + i - 1) % Len(Hexagon)) + 1]]

\* The items input.json may hold: rectangles, and polygons of 0..MaxPts points.
InputItems ==
    {Rectanglelabels} \cup {Polygon(Outline(from, n)) : from \in {0, 3}, n \in 0..MaxPts}

InitDriver ==
    /\ value = <<>>
    /\ mesh2d = NoMesh /\ mesh3d = NoMesh /\ rcmesh = NoMesh /\ obj = NoMesh
    /\ done = {}
    /\ input \in SeqsUpTo(InputItems, MaxItems)
    /\ items = <<>> /\ polygons = <<>> /\ shapes = <<>>
    /\ index = 0 /\ calls = <<>> /\ files = <<>> /\ failedAt = <<>>
    /\ pc = "read"

\* read_floorplan_from_file("input.json") returns Ok(Floorplan { items }).
ReadFloorplan ==
    /\ pc = "read"
    /\ items' = input
    /\ pc' = "filter"
    /\ UNCHANGED <<input, polygons, shapes, index, calls, files, failedAt>>
    /\ UNCHANGED meshVars

\* read_floorplan_from_file returns Err (File::open or serde_json): unwrap panics.
ReadFail ==
    /\ pc = "read"
    /\ pc' = "panicked"
    /\ UNCHANGED <<input, items, polygons, shapes, index, calls, files, failedAt>>
    /\ UNCHANGED meshVars

FilterMap_min3(v) ==
    IF v.type = "polygonlabels"
    THEN IF Len(v.points) < 3
         THEN <<>>
         ELSE <<[i \in 1..Len(v.points) |-> Point_new(v.points[i][1], v.points[i][2])]>>
    ELSE <<>>

\* The closure of filter_map: <<>> is None, <<polygon>> is Some(polygon).
FilterMap(v) ==
    IF v.type = "polygonlabels"
    THEN IF Len(v.points) <= 0
         THEN <<>>
         ELSE <<[i \in 1..Len(v.points) |-> Point_new(v.points[i][1], v.points[i][2])]>>
    ELSE <<>>

\* One item through floorplan.items.into_iter().filter_map(..).
FilterItem ==
    /\ pc = "filter" /\ items # <<>>
    /\ items' = Tail(items)
    /\ polygons' = polygons \o FilterMap(Head(items))
    /\ UNCHANGED <<input, shapes, index, calls, files, failedAt, pc>>
    /\ UNCHANGED meshVars

\* .collect() returns; main calls process_shapes(polygons).
FilterCollect ==
    /\ pc = "filter" /\ items = <<>>
    /\ pc' = "process"
    /\ UNCHANGED <<input, items, polygons, shapes, index, calls, files, failedAt>>
    /\ UNCHANGED meshVars

\* One polygon through .map(Floorplan3DMesh::from).map(|v| v.into()).
ProcessShape ==
    /\ pc = "process" /\ polygons # <<>>
    /\ polygons' = Tail(polygons)
    /\ shapes' = Append(shapes, RcMeshFrom(Floorplan3DMeshFrom(Head(polygons))))
    /\ UNCHANGED <<input, items, index, calls, files, failedAt, pc>>
    /\ UNCHANGED meshVars

ProcessCollect_early ==
    /\ pc = "process"
    /\ pc' = "generate"
    /\ UNCHANGED <<input, items, polygons, shapes, index, calls, files, failedAt>>
    /\ UNCHANGED meshVars

\* .collect() returns; main calls generate_meshes("wall", shapes).
ProcessCollect ==
    /\ pc = "process" /\ polygons = <<>>
    /\ pc' = "generate"
    /\ UNCHANGED <<input, items, polygons, shapes, index, calls, files, failedAt>>
    /\ UNCHANGED meshVars

\* One iteration of generate_meshes in which save_mesh_object returns.
SaveMesh ==
    /\ pc = "generate" /\ shapes # <<>>
    /\ LET filename == Filename("wall", index)
       IN  /\ calls' = Append(calls, filename)
           /\ files' = Append(files, [name     |-> filename,
                                      complete |-> TRUE,
                                      content  |-> SaveMeshObject(Head(shapes), filename)])
    /\ shapes' = Tail(shapes)
    /\ index' = index + 1
    /\ UNCHANGED <<input, items, polygons, failedAt, pc>>
    /\ UNCHANGED meshVars

SaveFailCreate_continue ==
    /\ pc = "generate" /\ shapes # <<>>
    /\ calls' = Append(calls, Filename("wall", index))
    /\ failedAt' = <<index>>
    /\ shapes' = Tail(shapes)
    /\ index' = index + 1
    /\ UNCHANGED <<input, items, polygons, files, pc>>
    /\ UNCHANGED meshVars

\* One iteration in which File::create fails: expect("Failed creating output
\* file") panics, no file is created.
SaveFailCreate ==
    /\ pc = "generate" /\ shapes # <<>>
    /\ calls' = Append(calls, Filename("wall", index))
    /\ failedAt' = <<index>>
    /\ shapes' = Tail(shapes)
    /\ index' = index + 1
    /\ pc' = "panicked"
    /\ UNCHANGED <<input, items, polygons, files>>
    /\ UNCHANGED meshVars

\* One iteration in which write_meshes fails: expect("Failed rendering scene")
\* panics, the created file is left behind incomplete.
SaveFailWrite ==
    /\ pc = "generate" /\ shapes # <<>>
    /\ LET filename == Filename("wall", index)
       IN  /\ calls' = Append(calls, filename)
           /\ files' = Append(files, [name     |-> filename,
                                      complete |-> FALSE,
                                      content  |-> NoMesh])
    /\ failedAt' = <<index>>
    /\ shapes' = Tail(shapes)
    /\ index' = index + 1
    /\ pc' = "panicked"
    /\ UNCHANGED <<input, items, polygons>>
    /\ UNCHANGED meshVars

\* The loop of generate_meshes ends; main returns.
GenerateDone ==
    /\ pc = "generate" /\ shapes = <<>>
    /\ pc' = "done"
    /\ UNCHANGED <<input, items, polygons, shapes, index, calls, files, failedAt>>
    /\ UNCHANGED meshVars

NextDriver ==
    \/ ReadFloorplan \/ ReadFail
    \/ FilterItem \/ FilterCollect
    \/ ProcessShape \/ ProcessCollect
    \/ SaveMesh \/ SaveFailCreate \/ SaveFailWrite
    \/ GenerateDone

SpecDriver == InitDriver /\ [][NextDriver]_vars

----------------------------------------------------------------------------
(* Properties of the meshers (Spec) *)

N == Len(value)

\* next(i) of the side-face rule: the successor of i on the ring 1..N.
RingNext(i) == IF i < N THEN i + 1 ELSE 1

Ascending(a, n) == [i \in 1..n |-> a + i - 1]

\* C1: for N >= 1 the face list of Floorplan3DMesh::from is exactly
\* [top, side_1, .., side_N, bottom] with top = [1..N], bottom = [N+1..2N] and
\* side_i = [i, next(i), next(i)+N, i+N]; the last side face is [N, 1, N+1, 2N],
\* its roof neighbour being 1 and not N+1.
C1_FaceList ==
    ("3d" \in done /\ N >= 1) =>
        /\ mesh3d.faces =
              <<Ascending(1, N)>>
              \o [i \in 1..N |-> <<i, RingNext(i), RingNext(i) + N, i + N>>]
              \o <<Ascending(N + 1, N)>>
        /\ mesh3d.faces[N + 1] = <<N, 1, N + 1, 2 * N>>
        /\ mesh3d.faces[N + 1][2] # N + 1

C1_Witness ==
    /\ "3d" \in done /\ N = 4
    /\ mesh3d.faces[5] = <<4, 1, 5, 8>>

\* C2: for N >= 1 the output of Floorplan3DMesh::from has exactly 2N vertices
\* and exactly N + 2 faces.
C2_Counts ==
    ("3d" \in done /\ N >= 1) =>
        /\ Len(mesh3d.vertices) = 2 * N
        /\ Len(mesh3d.faces) = N + 2

C2_Witness ==
    /\ "3d" \in done /\ N = 3
    /\ Len(mesh3d.vertices) = 6 /\ Len(mesh3d.faces) = 5

\* C3: for N >= 1 and every i in 1..N, vertex i of the Floorplan3DMesh::from
\* output is (P_i.x, P_i.y, roof_z) and vertex N+i is (P_i.x, P_i.y, floor_z):
\* roof block first, floor block second, in input order, repeated points kept.
C3_RoofFloorSplit ==
    ("3d" \in done /\ N >= 1) =>
        /\ Len(mesh3d.vertices) = 2 * N
        /\ \A i \in 1..N :
              /\ mesh3d.vertices[i] = [x |-> value[i].x, y |-> value[i].y, z |-> 10]
              /\ mesh3d.vertices[N + i] = [x |-> value[i].x, y |-> value[i].y, z |-> 0]

\* A polygon with a repeated point and two different ones, extruded.
C3_Witness ==
    /\ "3d" \in done /\ N >= 3
    /\ \E i, j \in 1..N : i # j /\ value[i] = value[j]
    /\ \E i, j \in 1..N : value[i] # value[j]

\* C4: for N >= 1, Floorplan2DMesh::from returns the input as its vertex list,
\* unchanged and in order, and exactly one face, [1, 2, .., N].
C4_PlanarMesh ==
    ("2d" \in done /\ N >= 1) =>
        /\ mesh2d.vertices = value
        /\ Len(mesh2d.vertices) = N
        /\ mesh2d.faces = <<Ascending(1, N)>>

C4_Witness ==
    /\ "2d" \in done /\ N = 3
    /\ mesh2d.faces = <<(<<1, 2, 3>>)>>
    /\ mesh2d.vertices[1] # mesh2d.vertices[2]

InRange(m) ==
    \A f \in 1..Len(m.faces) : \A k \in 1..Len(m.faces[f]) :
        m.faces[f][k] \in 1..Len(m.vertices)

NoRepeat(m) ==
    \A f \in 1..Len(m.faces) : \A j, k \in 1..Len(m.faces[f]) :
        j # k => m.faces[f][j] # m.faces[f][k]

\* C5 as stated: for N >= 1 every index of every face of either mesher lies in
\* [1, len(vertices)] and no face contains the same index twice.
C5_Original ==
    /\ ("2d" \in done /\ N >= 1) => (InRange(mesh2d) /\ NoRepeat(mesh2d))
    /\ ("3d" \in done /\ N >= 1) => (InRange(mesh3d) /\ NoRepeat(mesh3d))

\* C5 as amended: for N >= 1 every index of every face of either mesher lies in
\* [1, len(vertices)]; no face of Floorplan2DMesh::from repeats an index; no
\* face of Floorplan3DMesh::from repeats an index when N >= 2, and for N = 1
\* its one side face is [1, 1, 2, 2].
C5_IndexRange ==
    /\ ("2d" \in done /\ N >= 1) => (InRange(mesh2d) /\ NoRepeat(mesh2d))
    /\ ("3d" \in done /\ N >= 1) => InRange(mesh3d)
    /\ ("3d" \in done /\ N >= 2) => NoRepeat(mesh3d)
    /\ ("3d" \in done /\ N = 1) => mesh3d.faces[2] = <<1, 1, 2, 2>>

C5_Witness ==
    /\ {"2d", "3d"} \subseteq done /\ N = 2
    /\ mesh3d.faces = <<(<<1, 2>>), <<1, 2, 4, 3>>, <<2, 1, 3, 4>>, <<3, 4>>>>

\* The undirected edge of face s[1] that starts at position s[2]; the edge at
\* the last position closes the loop back to the first.
EdgeAt(m, s) ==
    LET face == m.faces[s[1]]
    IN  {face[s[2]], face[(s[2] % Len(face)) + 1]}

\* C6: for N >= 3 the faces of Floorplan3DMesh::from form a closed 2-manifold:
\* every undirected edge of a face occurs in exactly two faces (and only once
\* in each), and every vertex index 1..2N is used by some face.
C6_ClosedManifold ==
    ("3d" \in done /\ N >= 3) =>
        LET slots == UNION {{<<f, k>> : k \in 1..Len(mesh3d.faces[f])} :
                                f \in 1..Len(mesh3d.faces)}
        IN  /\ \A s \in slots :
                  /\ Cardinality(EdgeAt(mesh3d, s)) = 2
                  /\ Cardinality({t \in slots : EdgeAt(mesh3d, t) = EdgeAt(mesh3d, s)}) = 2
                  /\ Cardinality({t[1] : t \in {u \in slots :
                                      EdgeAt(mesh3d, u) = EdgeAt(mesh3d, s)}}) = 2
            /\ \A v \in 1..(2 * N) : \E s \in slots : v \in EdgeAt(mesh3d, s)

C6_Witness ==
    /\ "3d" \in done /\ N = 5
    /\ Len(mesh3d.faces) = 7

\* C7 as stated: the adapter hands the exporter the vertices with the x, y, z
\* the extruder produced and the face list unchanged, and sets no color.
C7_Original ==
    "obj" \in done =>
        /\ Len(obj.vertices) = Len(mesh3d.vertices)
        /\ \A i \in 1..Len(mesh3d.vertices) :
              obj.vertices[i] =
                  <<mesh3d.vertices[i].x, mesh3d.vertices[i].y, mesh3d.vertices[i].z>>
        /\ obj.faces = mesh3d.faces
        /\ obj.color = "None" /\ obj.export_colors = "None"

\* C7 as amended: the adapter hands the exporter every vertex translated by
\* +1.0 along x (Tf::tx(1.0)) with y and z as the extruder produced them, in
\* the same order, and the face list unchanged; it applies no scaling and
\* sets no color.
C7_Adapter ==
    "obj" \in done =>
        /\ Len(obj.vertices) = Len(mesh3d.vertices)
        /\ \A i \in 1..Len(mesh3d.vertices) :
              obj.vertices[i] =
                  <<mesh3d.vertices[i].x + 1, mesh3d.vertices[i].y, mesh3d.vertices[i].z>>
        /\ obj.faces = mesh3d.faces
        /\ obj.color = "None" /\ obj.export_colors = "None"

C7_Witness ==
    /\ "obj" \in done /\ N >= 3
    /\ obj.vertices[1] = <<1, 5, 10>>
    /\ obj.vertices[N + 1] = <<1, 5, 0>>

----------------------------------------------------------------------------
(* Properties of the driver (SpecDriver) *)

IsRetained(v) == v.type = "polygonlabels" /\ Len(v.points) >= 1

\* The polygon items of the input that have at least one point, in input order.
Retained == SelectSeq(input, IsRetained)

\* The artifact the claim expects for the k-th retained polygon, k from 0.
Artifact(k) ==
    LET name == <<"data/", "wall", "_", k, ".obj">>
        pts  == Retained[k + 1].points
        poly == [i \in 1..Len(pts) |-> [x |-> pts[i][1], y |-> pts[i][2]]]
    IN  [name     |-> name,
         complete |-> TRUE,
         content  |-> SaveMeshObject(RcMeshFrom(Floorplan3DMeshFrom(poly)), name)]

\* C8: the driver exports exactly one artifact for each polygon item that has
\* at least one point (1 or 2 points included), in input order, the k-th
\* retained polygon (from 0) as data/wall_k.obj; empty polygons and rectangles
\* produce no mesh and no exporter call and consume no index.  While the run
\* lasts the calls and artifacts are a prefix of that list; when main returns
\* they are the whole list.
C8_OnePerPolygon ==
    /\ Len(calls) <= Len(Retained)
    /\ Len(polygons) + Len(shapes) + index <= Len(Retained)
    /\ \A k \in 1..Len(calls) : calls[k] = <<"data/", "wall", "_", k - 1, ".obj">>
    /\ \A k \in 1..Len(files) : files[k].complete => files[k] = Artifact(k - 1)
    /\ pc = "done" =>
          /\ Len(calls) = Len(Retained)
          /\ files = [k \in 1..Len(Retained) |-> Artifact(k - 1)]

\* main returned after an input that mixes a rectangle, an empty polygon and
\* polygons of one and of two points.
C8_Witness ==
    /\ pc = "done"
    /\ Len(files) = 2 /\ Len(input) = 3
    /\ \E i \in 1..Len(input) : ~IsRetained(input[i])
    /\ \E i \in 1..Len(input) : IsRetained(input[i]) /\ Len(input[i].points) \in {1, 2}
    /\ files[2].name = <<"data/", "wall", "_", 1, ".obj">>

\* Polygons extruded so far: those waiting in shapes and those generate_meshes
\* already took.
Extruded == Len(shapes) + index

Written == Cardinality({k \in 1..Len(files) : files[k].complete})

\* C9 as stated: the extrusion of polygon k+1 does not happen before the
\* artifact of polygon k has been written.
C9_Original == Extruded <= Written + 1

\* C9 as amended: the driver first extrudes every retained polygon, in input
\* order (process_shapes collects all meshes), and only then writes the
\* artifacts, sequentially in input order, artifact k before artifact k+1: no
\* exporter call happens while a polygon is still to be extruded.
C9_ExtrudeAllThenWrite ==
    /\ calls # <<>> => (polygons = <<>> /\ Extruded = Len(Retained))
    /\ \A j \in 1..Len(shapes) :
          LET pts == Retained[index + j].points
          IN  shapes[j] = RcMeshFrom(Floorplan3DMeshFrom(
                              [i \in 1..Len(pts) |-> [x |-> pts[i][1], y |-> pts[i][2]]]))
    /\ Len(calls) = index
    /\ \A k \in 1..Len(files) : files[k].name[4] = k - 1

\* The first artifact is written while two further meshes are already built.
C9_Witness ==
    /\ pc = "generate" /\ Len(files) = 1 /\ files[1].complete
    /\ Len(shapes) = 2 /\ polygons = <<>>

\* C10: if creating or writing the artifact of index k fails the run aborts at
\* once: no exporter call for an index above k, no second call for k, and the
\* artifacts written for the indices below k stay in place.
C10_AbortOnFailure ==
    failedAt # <<>> =>
        LET k == failedAt[1]
        IN  /\ pc = "panicked"
            /\ calls = [i \in 1..(k + 1) |-> <<"data/", "wall", "_", i - 1, ".obj">>]
            /\ Len(files) \in {k, k + 1}
            /\ \A i \in 1..k : files[i] = Artifact(i - 1)
            /\ Len(files) = k + 1 => ~files[k + 1].complete

\* The export of index 1 failed with artifact 0 written and a polygon left.
C10_Witness ==
    /\ failedAt = <<1>> /\ pc = "panicked"
    /\ Len(files) >= 1 /\ files[1].complete
    /\ shapes # <<>>

====
